---- MODULE Spec2Model ----
(***************************************************************************)
(* Point-in-time (PIT) dump of qlib_scripts/dump_pit.py: DumpPitData reads *)
(* one raw revision log per input file, resolves publish dates against the *)
(* calendar, selects the fields to dump, sorts each field's rows by the    *)
(* calendar ordinal and hands them to FileFinancialStorage.write.  The     *)
(* per-file tasks run in a process pool.  FileFinancialStorage and the     *)
(* read path are not part of the script; they are modelled from spec.md    *)
(* (sections 4.3 - 4.6 and 5).                                             *)
(***************************************************************************)
EXTENDS Integers, Sequences, FiniteSets

(* ----------------------------- bounds ---------------------------------- *)
\* longest raw log of the single-file inputs
MaxRows == 2
\* most input files of the pool inputs
MaxFiles == 2
\* number of times dump() is called on the same DumpPitData
MaxRuns == 2

(* ------------------------- program constants --------------------------- *)
\* DumpPitData.__init__: max_workers
max_workers == 16
\* DumpPitData.__init__: file_suffix
file_suffix == <<".", "c", "s", "v">>
\* df.merge(..., how="left"): the cal_index of a row whose date is not in
\* the calendar (pandas NaN)
NaN == -1
\* the absent / terminal sentinel of the index and data segments
NA_INDEX == -1

(* ------------------------------ inputs --------------------------------- *)
\* qlib_dir/calendars/day.txt, one date per line
calendar == <<"2021-01-01", "2021-01-04">>
\* publish dates of raw rows; 2021-01-02 is not in the calendar
Dates == {"2021-01-01", "2021-01-02", "2021-01-04"}
Periods == {202001, 202003}
Values == {1, 2}
Fields == {"open", "close"}
\* names that may be configured as include / exclude fields
ConfigFields == {"open", "close", "pe"}
Intervals == {"q"}
FileNames == {<<"A">> \o file_suffix, <<"a">> \o file_suffix, <<"b">> \o file_suffix}

\* the rows of the single-file inputs: every revision of "open", and the
\* revisions of "close" of value 1 published on the first calendar date
Rows ==
    [date : Dates, period : Periods, value : Values, field : {"open"}]
    \cup [date : {calendar[1]}, period : Periods, value : {1}, field : {"close"}]

\* the raw logs of the pool inputs: an empty file; a file with one revision
\* of each of two fields, the second published on a date that is not in the
\* calendar; a file with two periods of one field
Rev(date, period, value, field) ==
    [date |-> date, period |-> period, value |-> value, field |-> field]
PoolLogs ==
    { <<>>,
      << Rev("2021-01-01", 202001, 1, "open"), Rev("2021-01-02", 202001, 2, "close") >>,
      << Rev("2021-01-04", 202001, 2, "open"), Rev("2021-01-01", 202003, 1, "open") >> }

SeqsUpTo(S, n) == UNION {[1..k -> S] : k \in 0..n}

Min(S) == CHOOSE x \in S : \A y \in S : x <= y
Max(S) == CHOOSE x \in S : \A y \in S : y <= x

VARIABLES
    csv_files,       \* self.csv_files: the input files of the run
    raw,             \* the raw revision log (csv content) of each input file
    include_fields,  \* self._include_fields
    exclude_fields,  \* self._exclude_fields
    interval,        \* self.interval
    tie_rank,        \* the order the build's unstable sort leaves equal keys in
    pc,              \* per task: "queued", "running", "done", "aborted"
    todo,            \* per task: the fields the loop of _dump_pit has not visited
    wr,              \* per task: the FileFinancialStorage.write in progress
    store,           \* the Field Stores visible to readers, by <<symbol, field>>
    written,         \* per task: the Field Stores it wrote in this run
    origin,          \* per visible Field Store: the input file it was written from
    run              \* the number of dump() calls so far

vars == <<csv_files, raw, include_fields, exclude_fields, interval, tie_rank,
          pc, todo, wr, store, written, origin, run>>

(* ----------------------- get_symbol_from_file -------------------------- *)
\* str.lower on the characters of the modelled file names
LowerChar(c) == CASE c = "A" -> "a" [] c = "B" -> "b" [] OTHER -> c

Lower(s) == [i \in 1..Len(s) |-> LowerChar(s[i])]

RECURSIVE LStrip(_)
LStrip(s) == IF s # <<>> /\ Head(s) = " " THEN LStrip(Tail(s)) ELSE s

RECURSIVE RStrip(_)
RStrip(s) ==
    IF s # <<>> /\ s[Len(s)] = " " THEN RStrip(SubSeq(s, 1, Len(s) - 1)) ELSE s

\* str.strip
Strip(s) == RStrip(LStrip(s))

\* qlib.utils.fname_to_code: undoes the escaping of reserved file names; no
\* modelled name is escaped
fname_to_code(s) == s

get_symbol_from_file(file_path) ==
    fname_to_code(Lower(Strip(SubSeq(file_path, 1, Len(file_path) - Len(file_suffix)))))

(* --------------------------- get_calendar_df --------------------------- *)
\* the calendar as a frame of (cal_index, date), cal_index counting from 0
get_calendar_df == [i \in 1..Len(calendar) |-> [cal_index |-> i - 1, date |-> calendar[i]]]

(* ------------------------------ _dump_pit ------------------------------ *)
\* faulty variant: every row gets the first calendar ordinal
MergeRowFirst(row, cal) ==
    << [date |-> 0, period |-> row.period, value |-> row.value, field |-> row.field] >>

\* one left row of df.merge(self.calendar, on="date", how="left") followed by
\* df["date"] = df["cal_index"]: one output row per matching calendar row,
\* and one row with NaN when there is none
MergeRow(row, cal) ==
    LET hits == SelectSeq(cal, LAMBDA c : c.date = row.date)
    IN  IF hits = <<>>
        THEN << [date |-> NaN, period |-> row.period, value |-> row.value,
                 field |-> row.field] >>
        ELSE [i \in 1..Len(hits) |->
                 [date |-> hits[i].cal_index, period |-> row.period,
                  value |-> row.value, field |-> row.field]]

RECURSIVE Merge(_, _)
Merge(df, cal) ==
    IF df = <<>> THEN <<>> ELSE MergeRow(Head(df), cal) \o Merge(Tail(df), cal)

\* the frame of a task after lines 123-128
MergedDf(f) == Merge(raw[f], get_calendar_df)

FieldColumn(df) == {df[i].field : i \in DOMAIN df}

\* faulty variant: the exclude set wins over the include set
get_dump_fields_exclude_first(df) ==
    IF exclude_fields # {} THEN FieldColumn(df) \ exclude_fields
    ELSE IF include_fields # {} THEN include_fields
    ELSE FieldColumn(df)

get_dump_fields(df) ==
    IF include_fields # {} THEN include_fields
    ELSE IF exclude_fields # {} THEN FieldColumn(df) \ exclude_fields
    ELSE FieldColumn(df)

\* faulty variant: the query does not look at the field
QueryAll(df, field) == df

\* df.query("field=='<field>'")
Query(df, field) == SelectSeq(df, LAMBDA r : r.field = field)

\* positions of df in the order of sort_values("date"): NaN rows last in
\* their input order (pandas nargsort); rows of equal date in the order the
\* build's sort (numpy quicksort, not stable) leaves them in, given by tie_rank
Before(df, i, j) ==
    IF df[i].date = NaN \/ df[j].date = NaN
    THEN IF df[i].date = NaN /\ df[j].date = NaN THEN i < j ELSE df[j].date = NaN
    ELSE \/ df[i].date < df[j].date
         \/ df[i].date = df[j].date /\ tie_rank[i] < tie_rank[j]

RECURSIVE Ordered(_, _)
Ordered(df, S) ==
    IF S = {} THEN <<>>
    ELSE LET m == CHOOSE i \in S : \A j \in S \ {i} : Before(df, i, j)
         IN  <<df[m]>> \o Ordered(df, S \ {m})

sort_values(df) == Ordered(df, DOMAIN df)

\* faulty variant: the file name does not depend on the field
FieldFileConst(field) == <<"open", interval>>

\* the file name of a field: f"{field}_{self.interval}"
FieldFile(field) == <<field, interval>>

\* faulty variant: the store is named by the field alone
KeyOfField(f, field) == << <<>>, FieldFile(field) >>

\* the Field Store a task writes for a field
KeyOf(f, field) == <<get_symbol_from_file(f), FieldFile(field)>>

(* ------- FileFinancialStorage.write: spec.md 4.3, 4.4 and 4.5 ---------- *)
\* 4.3 step 1: rows whose date is unresolvable are dropped
Resolved(rows) == SelectSeq(rows, LAMBDA r : r.date # NaN)

PeriodsOf(rows) == {rows[i].period : i \in DOMAIN rows}

\* 4.3 step 3: sort by ordinal ascending, ties broken by input order
RECURSIVE InsertStable(_, _)
InsertStable(sorted, r) ==
    IF sorted = <<>> THEN <<r>>
    ELSE IF Head(sorted).date <= r.date
         THEN <<Head(sorted)>> \o InsertStable(Tail(sorted), r)
         ELSE <<r>> \o sorted

RECURSIVE StableSort(_)
StableSort(rows) ==
    IF rows = <<>> THEN <<>>
    ELSE InsertStable(StableSort(SubSeq(rows, 1, Len(rows) - 1)), rows[Len(rows)])

\* 4.3 steps 2-3: the chain of one period, oldest first
ChainRows(rows, p) == StableSort(SelectSeq(Resolved(rows), LAMBDA r : r.period = p))

\* 4.5: the chains in ascending period order, each head to tail
RECURSIVE PhysicalOrder(_, _)
PhysicalOrder(rows, ps) ==
    IF ps = {} THEN <<>>
    ELSE LET p == Min(ps)
         IN  ChainRows(rows, p) \o PhysicalOrder(rows, ps \ {p})

\* faulty variant: the last record of a period points on to the next period
DataSegmentRunOn(ordered) ==
    [i \in 1..Len(ordered) |->
        [date |-> ordered[i].date, period |-> ordered[i].period,
         value |-> ordered[i].value,
         next |-> IF i < Len(ordered) THEN i ELSE NA_INDEX]]

\* 4.3 step 4 and 4.5: record i sits at offset i - 1; next is the offset of
\* the following record of the same period, or the terminal sentinel
DataSegment(ordered) ==
    [i \in 1..Len(ordered) |->
        [date |-> ordered[i].date, period |-> ordered[i].period,
         value |-> ordered[i].value,
         next |-> IF i < Len(ordered) /\ ordered[i + 1].period = ordered[i].period
                  THEN i ELSE NA_INDEX]]

\* 4.4: one slot per period from the first to the last present one
IndexSlots(ordered, first, last) ==
    [k \in 1..(last - first + 1) |->
        LET at == {i \in 1..Len(ordered) : ordered[i].period = first + k - 1}
        IN  IF at = {} THEN NA_INDEX ELSE Min(at) - 1]

\* the Field Store of a field's rows; with no resolvable row it has no period
Write(rows) ==
    LET ps == PeriodsOf(Resolved(rows))
        ordered == PhysicalOrder(rows, ps)
    IN  IF ps = {}
        THEN [first_period |-> 0, index |-> <<>>, data |-> <<>>]
        ELSE [first_period |-> Min(ps),
              index |-> IndexSlots(ordered, Min(ps), Max(ps)),
              data |-> DataSegment(ordered)]

\* a Field Store of which only the first n records are written
Partial(content, n) ==
    [first_period |-> content.first_period, index |-> content.index,
     data |-> SubSeq(content.data, 1, n)]

(* ------------------------ resolver: spec.md 4.6 ------------------------ *)
\* 4.6 step 3: the walk from offset cur; seen collects the offsets it reads
RECURSIVE Walk(_, _, _, _, _)
Walk(data, cur, as_of, acc, fuel) ==
    IF cur = NA_INDEX \/ fuel = 0 THEN acc
    ELSE IF cur + 1 \notin DOMAIN data
         THEN [result |-> acc.result, seen |-> acc.seen \cup {cur}]
         ELSE LET rec == data[cur + 1]
                  now == [result |-> acc.result, seen |-> acc.seen \cup {cur}]
              IN  IF rec.date <= as_of
                  THEN Walk(data, rec.next, as_of,
                            [result |-> {rec.value}, seen |-> now.seen], fuel - 1)
                  ELSE now

\* 4.6: result is {} for unknown and {value} otherwise
Resolve(st, period, as_of) ==
    LET slot == period - st.first_period + 1
    IN  IF slot \notin DOMAIN st.index \/ st.index[slot] = NA_INDEX
        THEN [result |-> {}, seen |-> {}]
        ELSE Walk(st.data, st.index[slot], as_of, [result |-> {}, seen |-> {}],
                  Len(st.data) + 1)

\* lookup(period, as_of) on the store readers see for key
lookup(key, period, as_of) ==
    IF key \in DOMAIN store THEN Resolve(store[key], period, as_of)
    ELSE [result |-> {}, seen |-> {}]

(* ---------------------------- the program ------------------------------ *)
NoWrite == [active |-> FALSE, field |-> "", rows |-> <<>>, content |-> Write(<<>>), n |-> 0]

\* no two rows of one field and period of an input share a resolved date
NoTies(f) ==
    LET df == MergedDf(f)
    IN  \A i, j \in DOMAIN df :
            (i # j /\ df[i].field = df[j].field /\ df[i].period = df[j].period
                   /\ df[i].date # NaN)
            => df[i].date # df[j].date

TieOrders(n) == {p \in [1..n -> 1..n] : \A i, j \in 1..n : i # j => p[i] # p[j]}

\* the state after DumpPitData(...) is constructed, for given inputs
InitWith(fileSets, logs, includes, excludes) ==
    /\ csv_files \in fileSets
    /\ raw \in [csv_files -> logs]
    /\ include_fields \in includes
    /\ exclude_fields \in excludes
    /\ interval \in Intervals
    /\ tie_rank \in TieOrders(MaxRows)
    /\ (\A f \in csv_files : NoTies(f)) => tie_rank = [i \in 1..MaxRows |-> i]
    /\ pc = [f \in csv_files |-> "queued"]
    /\ todo = [f \in csv_files |-> {}]
    /\ wr = [f \in csv_files |-> NoWrite]
    /\ store = << >>
    /\ written = [f \in csv_files |-> {}]
    /\ origin = << >>
    /\ run = 1

\* a pool of input files with short logs
Init ==
    InitWith({S \in SUBSET FileNames : Cardinality(S) <= MaxFiles},
             PoolLogs,
             {{}, {"open", "pe"}}, {{}, {"open"}})

\* one input file with every log of up to MaxRows rows; no field filter, or
\* an include set that names one field with rows and one without
InitPit ==
    InitWith({{<<"a">> \o file_suffix}}, SeqsUpTo(Rows, MaxRows),
             {{}, {"open", "pe"}}, {{}})

Input == <<csv_files, raw, include_fields, exclude_fields, interval, tie_rank>>

\* a worker takes a task: lines 122-128 and the evaluation of get_dump_fields
Start(f) ==
    /\ pc[f] = "queued"
    /\ Cardinality({g \in csv_files : pc[g] = "running"}) < max_workers
    /\ IF raw[f] = <<>>
       THEN /\ pc' = [pc EXCEPT ![f] = "done"]
            /\ todo' = todo
       ELSE /\ pc' = [pc EXCEPT ![f] = "running"]
            /\ todo' = [todo EXCEPT ![f] = get_dump_fields(MergedDf(f))]
    /\ UNCHANGED <<Input, wr, store, written, origin, run>>

\* the rows _dump_pit passes to write for a field: lines 130-132
field_df(f, field) == sort_values(Query(MergedDf(f), field))

\* faulty variant: the emptiness test of line 133 is missing
IsEmptyNever(df) == FALSE

\* field_df.empty
IsEmpty(df) == df = <<>>

\* one iteration of the loop over the set of fields, the field has no row:
\* lines 133-135
SkipField(f) ==
    /\ pc[f] = "running" /\ ~wr[f].active
    /\ \E field \in todo[f] :
        /\ IsEmpty(field_df(f, field))
        /\ todo' = [todo EXCEPT ![f] = @ \ {field}]
    /\ UNCHANGED <<Input, pc, wr, store, written, origin, run>>

\* one iteration of the loop, the field has rows: lines 130-137 up to the
\* start of FileFinancialStorage.write
BeginWrite(f) ==
    /\ pc[f] = "running" /\ ~wr[f].active
    /\ \E field \in todo[f] :
        /\ ~IsEmpty(field_df(f, field))
        /\ todo' = [todo EXCEPT ![f] = @ \ {field}]
        /\ wr' = [wr EXCEPT ![f] = [active |-> TRUE, field |-> field,
                                    rows |-> field_df(f, field),
                                    content |-> Write(field_df(f, field)), n |-> 0]]
    /\ UNCHANGED <<Input, pc, store, written, origin, run>>

\* faulty variant: each record is written straight into the visible store
VisibleAfterRecordDirect(st, key, content, n) ==
    [k \in DOMAIN st \cup {key} |-> IF k = key THEN Partial(content, n) ELSE st[k]]

\* spec.md 5: records go to a temporary location; the visible store is
\* untouched until the write is published
VisibleAfterRecord(st, key, content, n) == st

\* write puts one more record into the store being written
WriteRecord(f) ==
    /\ pc[f] = "running" /\ wr[f].active
    /\ wr[f].n < Len(wr[f].content.data)
    /\ wr' = [wr EXCEPT ![f].n = @ + 1]
    /\ store' = VisibleAfterRecord(store, KeyOf(f, wr[f].field), wr[f].content,
                                   wr[f].n + 1)
    /\ origin' = [k \in DOMAIN store' |-> IF k \in DOMAIN origin THEN origin[k] ELSE f]
    /\ UNCHANGED <<Input, pc, todo, written, run>>

\* write completes: the store is published as a whole (spec.md 5)
Publish(f) ==
    /\ pc[f] = "running" /\ wr[f].active
    /\ wr[f].n = Len(wr[f].content.data)
    /\ LET key == KeyOf(f, wr[f].field)
       IN  /\ store' = [k \in DOMAIN store \cup {key} |->
                           IF k = key THEN wr[f].content ELSE store[k]]
           /\ origin' = [k \in DOMAIN store \cup {key} |->
                           IF k = key THEN f ELSE origin[k]]
           /\ written' = [written EXCEPT ![f] = @ \cup {key}]
    /\ wr' = [wr EXCEPT ![f] = NoWrite]
    /\ UNCHANGED <<Input, pc, todo, run>>

\* the loop over the fields is over: _dump_pit returns
Finish(f) ==
    /\ pc[f] = "running" /\ ~wr[f].active /\ todo[f] = {}
    /\ pc' = [pc EXCEPT ![f] = "done"]
    /\ UNCHANGED <<Input, todo, wr, store, written, origin, run>>

\* the task is aborted while it writes a Field Store; what it wrote to the
\* temporary location is never published
Abort(f) ==
    /\ pc[f] = "running" /\ wr[f].active
    /\ pc' = [pc EXCEPT ![f] = "aborted"]
    /\ wr' = [wr EXCEPT ![f] = NoWrite]
    /\ todo' = [todo EXCEPT ![f] = {}]
    /\ UNCHANGED <<Input, store, written, origin, run>>

\* dump() is called again on the same object once the pool has shut down
Rerun ==
    /\ run < MaxRuns
    /\ \A f \in csv_files : pc[f] \in {"done", "aborted"}
    /\ run' = run + 1
    /\ pc' = [f \in csv_files |-> "queued"]
    /\ written' = [f \in csv_files |-> {}]
    /\ UNCHANGED <<Input, todo, wr, store, origin>>

Next ==
    \/ \E f \in csv_files : Start(f)
    \/ \E f \in csv_files : SkipField(f)
    \/ \E f \in csv_files : BeginWrite(f)
    \/ \E f \in csv_files : WriteRecord(f)
    \/ \E f \in csv_files : Publish(f)
    \/ \E f \in csv_files : Finish(f)
    \/ \E f \in csv_files : Abort(f)
    \/ Rerun

Spec == Init /\ [][Next]_vars

SpecPit == InitPit /\ [][Next]_vars

(* ------------------------------ claims --------------------------------- *)
\* the calendar ordinal of a date (spec.md 4.1), counted from 0
OrdinalOf(date) == (CHOOSE i \in 1..Len(calendar) : calendar[i] = date) - 1

InCalendar(date) == \E i \in 1..Len(calendar) : calendar[i] = date

\* the periods and as-of ordinals queried
QueryPeriods == (Min(Periods) - 1)..(Max(Periods) + 1)
AsOfs == 0..Len(calendar)

FieldOfKey(key) == key[2][1]

\* positions of the raw rows of a file that are revisions of a field and period
RevisionsOf(f, field, p) ==
    {i \in DOMAIN raw[f] : raw[f][i].field = field /\ raw[f][i].period = p
                           /\ InCalendar(raw[f][i].date)}

\* of those, the ones published at or before as_of
KnownAt(f, field, p, as_of) ==
    {i \in RevisionsOf(f, field, p) : OrdinalOf(raw[f][i].date) <= as_of}

\* C1: for every dumped Field Store and every query (period, as_of), lookup
\* returns the value of a revision of that period with the largest publish
\* ordinal <= as_of, and unknown when the period has no revision published
\* at or before as_of.
C1_ResolverCorrect ==
    \A key \in DOMAIN store : \A p \in QueryPeriods : \A as_of \in AsOfs :
        LET f == origin[key]
            known == KnownAt(f, FieldOfKey(key), p, as_of)
            latest == {i \in known :
                          \A j \in known :
                              OrdinalOf(raw[f][j].date) <= OrdinalOf(raw[f][i].date)}
            got == lookup(key, p, as_of).result
        IN  IF known = {} THEN got = {}
            ELSE got # {} /\ got \subseteq {raw[f][i].value : i \in latest}

\* a period revised at a later date: the first value is read before the
\* revision and the revised value from the revision's ordinal on
C1_Witness ==
    \E key \in DOMAIN store : \E p \in Periods :
        /\ lookup(key, p, 0).result = {1}
        /\ lookup(key, p, 1).result = {2}
        /\ Cardinality(RevisionsOf(origin[key], FieldOfKey(key), p)) = 2

\* C2: a lookup of a period with no revision in the field returns unknown,
\* and no lookup reads an offset that is absent or outside the data segment.
C2_AbsentUnknown ==
    \A key \in DOMAIN store : \A p \in QueryPeriods : \A as_of \in AsOfs :
        LET r == lookup(key, p, as_of)
        IN  /\ RevisionsOf(origin[key], FieldOfKey(key), p) = {} => r.result = {}
            /\ \A off \in r.seen : off # NA_INDEX /\ off + 1 \in DOMAIN store[key].data

\* a store with a gap period between two periods that have revisions; the
\* gap, the period below the first and the period beyond the last are unknown
C2_Witness ==
    \E key \in DOMAIN store :
        /\ Len(store[key].index) = 3
        /\ store[key].index[2] = NA_INDEX
        /\ lookup(key, store[key].first_period + 1, 1).result = {}
        /\ lookup(key, store[key].first_period - 1, 1).result = {}
        /\ lookup(key, store[key].first_period + 3, 1).result = {}

\* C3: a row whose publish date is not in the calendar is not passed to the
\* Field Store writer.
C3_UnknownDateDropped ==
    \A f \in csv_files :
        wr[f].active => \A i \in DOMAIN wr[f].rows : wr[f].rows[i].date # NaN

\* the field names among the raw rows of a file
Present(f) == {raw[f][i].field : i \in DOMAIN raw[f]}

FieldsWritten(f) == {FieldOfKey(key) : key \in written[f]}

\* C4 as stated: the fields a task writes are the included names when the
\* include set is not empty, else the present names minus the excluded ones,
\* else the present names.
C4_FilterAsStated ==
    \A f \in csv_files :
        pc[f] = "done" =>
            FieldsWritten(f) =
                IF include_fields # {} THEN include_fields
                ELSE IF exclude_fields # {} THEN Present(f) \ exclude_fields
                ELSE Present(f)

\* C4 amended: with a non-empty include set the fields written are the
\* included names that occur among the symbol's rows, whatever the exclude
\* set; else the present names minus the excluded ones; else the present names.
C4_FilterPolicy ==
    \A f \in csv_files :
        pc[f] = "done" =>
            FieldsWritten(f) =
                IF include_fields # {} THEN include_fields \cap Present(f)
                ELSE IF exclude_fields # {} THEN Present(f) \ exclude_fields
                ELSE Present(f)

\* both sets are configured and name the same field, which is written
C4_Witness ==
    \E f \in csv_files :
        /\ pc[f] = "done"
        /\ include_fields # {} /\ exclude_fields # {}
        /\ include_fields \cap exclude_fields # {}
        /\ FieldsWritten(f) = include_fields \cap exclude_fields

\* the Field Stores the tasks of the run produce for a key when they complete
CompleteVersions(key) ==
    {Write(field_df(f, field)) : <<f, field>> \in
        {x \in csv_files \X (Fields \cup ConfigFields) :
            KeyOf(x[1], x[2]) = key /\ Query(MergedDf(x[1]), x[2]) # <<>>}}

C6_DisjointAsStated ==
    \A f, g \in csv_files : f # g => written[f] \cap written[g] = {}

\* C6 amended: the tasks of two input files that get_symbol_from_file maps to
\* different symbols never write the same Field Store.
C6_DisjointStores ==
    \A f, g \in csv_files :
        get_symbol_from_file(f) # get_symbol_from_file(g)
            => written[f] \cap written[g] = {}

\* two tasks of different symbols have both written
C6_Witness ==
    \E f, g \in csv_files :
        /\ get_symbol_from_file(f) # get_symbol_from_file(g)
        /\ written[f] # {} /\ written[g] # {}

AllDone == csv_files # {} /\ \A f \in csv_files : pc[f] = "done"

\* the <<file, field>> pairs for which a complete run writes a store
Targets ==
    {x \in csv_files \X (Fields \cup ConfigFields) :
        /\ x[2] \in get_dump_fields(MergedDf(x[1]))
        /\ raw[x[1]] # <<>>
        /\ Query(MergedDf(x[1]), x[2]) # <<>>}

\* the final stores are a function of the input: each is the version of
\* every task that writes it, so that no order of the tasks can change it
FinalStateFixed ==
    /\ DOMAIN store = {KeyOf(x[1], x[2]) : x \in Targets}
    /\ \A x \in Targets : store[KeyOf(x[1], x[2])] = Write(field_df(x[1], x[2]))

\* C7 as stated: after a complete dump, the content of every Field Store is
\* the same for every order of the tasks and of the fields.
C7_DeterministicAsStated == AllDone => FinalStateFixed

\* no two input files are mapped to the same symbol
OneFilePerSymbol ==
    \A f, g \in csv_files : f # g => get_symbol_from_file(f) # get_symbol_from_file(g)

\* C7 amended: provided no two input files are mapped to the same symbol, the
\* content of every Field Store after a complete dump is the same for every
\* order of the tasks and of the fields.
C7_Deterministic == (AllDone /\ OneFilePerSymbol) => FinalStateFixed

\* a second complete run over two files with two stores each way
C7_Witness ==
    /\ AllDone /\ run = 2 /\ Cardinality(csv_files) = 2
    /\ OneFilePerSymbol
    /\ \A f \in csv_files : written[f] # {}
    /\ \E f \in csv_files : Cardinality(written[f]) = 2

\* the offsets of the chain from offset cur, in the order they are visited
RECURSIVE ChainFrom(_, _, _)
ChainFrom(data, cur, fuel) ==
    IF cur = NA_INDEX \/ cur + 1 \notin DOMAIN data \/ fuel = 0 THEN <<>>
    ELSE <<cur>> \o ChainFrom(data, data[cur + 1].next, fuel - 1)

\* the chain of index slot k of a store
ChainOfSlot(st, k) == ChainFrom(st.data, st.index[k], Len(st.data) + 1)

\* C8: every period's chain visits publish ordinals in non-decreasing order,
\* visits no node twice, stays within its period and ends at the terminal
\* sentinel.
C8_ChainMonotone ==
    \A key \in DOMAIN store : \A k \in DOMAIN store[key].index :
        LET st == store[key]
            c == ChainOfSlot(st, k)
        IN  st.index[k] # NA_INDEX =>
                /\ c # <<>>
                /\ c[1] = st.index[k]
                /\ st.data[c[Len(c)] + 1].next = NA_INDEX
                /\ \A i, j \in DOMAIN c : i # j => c[i] # c[j]
                /\ \A i \in DOMAIN c : st.data[c[i] + 1].period = st.first_period + k - 1
                /\ \A i \in 1..(Len(c) - 1) :
                       st.data[c[i] + 1].date <= st.data[c[i + 1] + 1].date

\* a store holding a chain of two revisions of different ordinals, listed
\* latest first in the raw log, next to the chain of another period
C8_Witness ==
    \E key \in DOMAIN store : \E k \in DOMAIN store[key].index :
        LET st == store[key]
            c == ChainOfSlot(st, k)
        IN  /\ st.index[k] # NA_INDEX
            /\ Len(c) = 2
            /\ st.data[c[1] + 1].date < st.data[c[2] + 1].date
            /\ InCalendar(raw[origin[key]][1].date) /\ InCalendar(raw[origin[key]][2].date)
            /\ OrdinalOf(raw[origin[key]][1].date) > OrdinalOf(raw[origin[key]][2].date)

\* the tasks that can write, and the fields they select
SelectedNames(f) ==
    IF include_fields # {} THEN include_fields
    ELSE IF exclude_fields # {} THEN Present(f) \ exclude_fields
    ELSE Present(f)

\* C9: a task whose raw log is empty writes no Field Store and does not
\* fail; a selected field without rows gets no Field Store; and a task that
\* completes has written every selected field that has rows.
C9_EmptySkipped ==
    \A f \in csv_files :
        /\ raw[f] = <<>> => written[f] = {} /\ pc[f] # "aborted"
        /\ \A key \in written[f] : FieldOfKey(key) \in Present(f)
        /\ pc[f] = "done" => SelectedNames(f) \cap Present(f) \subseteq FieldsWritten(f)

\* an empty file and a file with rows are both done, a field without rows
\* was selected, and the file with rows has its store
C9_Witness ==
    \E f, g \in csv_files :
        /\ raw[f] = <<>> /\ pc[f] = "done"
        /\ pc[g] = "done" /\ written[g] # {}
        /\ "pe" \in include_fields

\* the values of the chain nodes of slot k published at ordinal d, head first
ChainValuesAt(st, k, d) ==
    LET c == ChainOfSlot(st, k)
        at == SelectSeq(c, LAMBDA off : st.data[off + 1].date = d)
    IN  [i \in 1..Len(at) |-> st.data[at[i] + 1].value]

\* the values of the raw rows of a field and period published at ordinal d,
\* in input order
RawValuesAt(f, field, p, d) ==
    LET at == SelectSeq([i \in DOMAIN raw[f] |-> i],
                        LAMBDA i : /\ i \in RevisionsOf(f, field, p)
                                   /\ OrdinalOf(raw[f][i].date) = d)
    IN  [i \in 1..Len(at) |-> raw[f][at[i]].value]

\* C10: revisions of one field and period with the same publish ordinal are
\* chained in the order of the raw log.
C10_StableTies ==
    \A key \in DOMAIN store : \A k \in DOMAIN store[key].index : \A d \in AsOfs :
        store[key].index[k] # NA_INDEX =>
            ChainValuesAt(store[key], k, d) =
                RawValuesAt(origin[key], FieldOfKey(key), store[key].first_period + k - 1, d)

====
